---- MODULE Spec2Model ----
(***************************************************************************)
(* ReverseUserKeyIterator of the Hummock storage engine                    *)
(* (rust/storage/src/hummock/iterator/reverse_user_key.rs).                *)
(*                                                                         *)
(* The iterator sits on a ReverseSortedIterator, a cursor over internal    *)
(* keys (user key ++ 8 byte epoch suffix) in descending order, and shows   *)
(* the caller one live (user key, value) pair per user key, newest visible *)
(* version only, inside key_range, in descending user-key order.           *)
(*                                                                         *)
(* Byte strings are sequences of numbers 0..255.  The merged source and    *)
(* the key codec live outside the iterator's file; they are modelled from  *)
(* their documented contract.                                              *)
(***************************************************************************)
EXTENDS Integers, Sequences, FiniteSets, TLC

\* ---------------------------------------------------------------- bounds
\* Largest number of records in the merged source.
MaxRecords == 3
MaxChunkLen == 2
MaxAdds == 2

\* ------------------------------------------------------------ byte strings
\* Lexicographic order of byte strings: the order of Rust's [u8] / Vec<u8>.
RECURSIVE LessFrom(_, _, _)
\* a < b, given that a and b agree before index i.
LessFrom(a, b, i) ==
    IF i > Len(a) THEN i <= Len(b)
    ELSE IF i > Len(b) THEN FALSE
    ELSE IF a[i] = b[i] THEN LessFrom(a, b, i + 1)
    ELSE a[i] < b[i]

BytesLess(a, b) == LessFrom(a, b, 1)

BytesLeq(a, b) == a = b \/ BytesLess(a, b)

\* ------------------------------------------------------------- key codec
\* Length of the epoch suffix of an internal key.
EPOCH_LEN == 8

RECURSIVE ToBytesBE(_, _)
\* Big-endian bytes of n, n bytes wide.
ToBytesBE(x, n) ==
    IF n = 0 THEN <<>> ELSE Append(ToBytesBE(x \div 256, n - 1), x % 256)

RECURSIVE ComplementBE(_, _, _)
\* Epoch::MAX minus the number whose big-endian bytes are the n bytes of b
\* after index from, i.e. that number with every byte complemented.
ComplementBE(b, from, n) ==
    IF n = 0 THEN 0
    ELSE ComplementBE(b, from, n - 1) * 256 + (255 - b[from + n])

\* Epoch::MAX - epoch as 8 big-endian bytes: the bitwise complement of epoch.
EncodeEpoch(epoch) ==
    LET be == ToBytesBE(epoch, EPOCH_LEN)
    IN [i \in 1..EPOCH_LEN |-> 255 - be[i]]

key_with_epoch(uk, epoch) == uk \o EncodeEpoch(epoch)

to_user_key(full_key) == SubSeq(full_key, 1, Len(full_key) - EPOCH_LEN)

EpochSuffix(full_key) ==
    SubSeq(full_key, Len(full_key) - EPOCH_LEN + 1, Len(full_key))

\* get_epoch that reads one byte too few of the suffix.
get_epoch_seven_bytes(full_key) ==
    ComplementBE(full_key, Len(full_key) - EPOCH_LEN, EPOCH_LEN - 1)

get_epoch(full_key) ==
    ComplementBE(full_key, Len(full_key) - EPOCH_LEN, EPOCH_LEN)

\* Order of internal keys: by user key, then by epoch suffix, so that a
\* newer epoch sorts before an older one of the same user key.
FullKeyLess(a, b) ==
    LET ua == to_user_key(a)
        ub == to_user_key(b)
    IN IF ua = ub THEN BytesLess(EpochSuffix(a), EpochSuffix(b))
       ELSE BytesLess(ua, ub)

FullKeyLeq(a, b) == a = b \/ FullKeyLess(a, b)

\* ---------------------------------------------------------------- values
Put(val) == [tag |-> "Put", val |-> val]
Delete == [tag |-> "Delete", val |-> <<>>]

\* Payload written for a version (test_value_of of the tests): it names the
\* version, so that two versions never carry the same payload.
test_value_of(uk, epoch) == uk \o <<epoch>>

\* ------------------------------------------------------------ input space
UserKeys == {<<>>, <<1>>, <<2>>}
Epochs == {1, 2}
Slots == UserKeys \X Epochs

\* The versions stored: a partial map from (user key, epoch) to Put/Delete.
Contents ==
    UNION {[S -> {"Put", "Delete"}] :
             S \in {T \in SUBSET Slots : Cardinality(T) <= MaxRecords}}

Record(slot, tag) ==
    [key |-> key_with_epoch(slot[1], slot[2]),
     value |-> IF tag = "Put" THEN Put(test_value_of(slot[1], slot[2]))
               ELSE Delete]

RECURSIVE SortDesc(_)
\* What the reverse iterator of one table yields: the records of the table
\* in descending internal-key order.
SortDesc(recs) ==
    IF recs = {} THEN <<>>
    ELSE LET top == CHOOSE r \in recs :
                        \A q \in recs : FullKeyLeq(q.key, r.key)
         IN <<top>> \o SortDesc(recs \ {top})

\* The tables the versions are spread over.
TableIds == {1, 2}

RECURSIVE MergeConcat(_)
\* A merge that drains the tables one after the other.
MergeConcat(iters) ==
    LET live == {t \in DOMAIN iters : iters[t] # <<>>}
    IN IF live = {} THEN <<>>
       ELSE LET top == CHOOSE t \in live : \A u \in live : t <= u
            IN <<Head(iters[top])>>
                   \o MergeConcat([iters EXCEPT ![top] = Tail(@)])

RECURSIVE Merge(_)
\* ReverseSortedIterator over the tables' iterators: at each step the
\* greatest of the tables' current records.
Merge(iters) ==
    LET live == {t \in DOMAIN iters : iters[t] # <<>>}
    IN IF live = {} THEN <<>>
       ELSE LET top == CHOOSE t \in live :
                           \A u \in live :
                               FullKeyLeq(Head(iters[u]).key,
                                          Head(iters[t]).key)
            IN <<Head(iters[top])>>
                   \o Merge([iters EXCEPT ![top] = Tail(@)])

\* The merged stream of a content whose versions lie in the tables as
\* place tells.
MergedStream(c, place) ==
    Merge([t \in TableIds |->
             SortDesc({Record(s, c[s]) : s \in {x \in DOMAIN c : place[x] = t}})])

Streams ==
    UNION {{MergedStream(c, place) : place \in [DOMAIN c -> TableIds]} :
             c \in Contents}

Unbounded == [kind |-> "Unbounded", key |-> <<>>]
Included(k) == [kind |-> "Included", key |-> k]
Excluded(k) == [kind |-> "Excluded", key |-> k]
\* The start bounds: none, or a key with user keys below, on and above it.
StartBounds ==
    {Unbounded} \cup {Included(k) : k \in {<<>>, <<1>>}}
                \cup {Excluded(k) : k \in {<<>>, <<1>>}}

\* The end bounds seek and rewind handle.
EndBounds == {Unbounded} \cup {Included(k) : k \in UserKeys}

\* An Excluded end bound stops seek and rewind before they read anything, so
\* it is paired with no start bound.
KeyRanges ==
    (StartBounds \X EndBounds)
        \cup ({Unbounded} \X {Excluded(k) : k \in UserKeys})


\* ------------------------------------------------------------------ state
VARIABLES
    source,      \* the records ReverseSortedIterator yields, in its order
    read_epoch,  \* ReverseUserKeyIterator::read_epoch
    key_range,   \* ReverseUserKeyIterator::key_range: <<start, end>>
    it,          \* the mutable fields of the iterator and the source cursor
    pc,          \* "running", or "panicked" once a handler has panicked
    lastOp,      \* the last handler called, its argument and its result
    run,         \* the seek/rewind that started the present iteration
    emitted,     \* <<key(), value()>> at each valid position of that iteration
    clean,       \* no source error since the last successful seek/rewind
    materialize_cache,  \* MaterializeExecutor::materialize_cache
    state_table,        \* MaterializeExecutor::state_table
    mvpc,               \* where execute_inner stands
    lastMsg,            \* the last message execute_inner has taken
    actual,             \* VerifyStateStore::actual, the rows it holds
    expected,           \* VerifyStateStore::expected, the rows it holds
    viter,              \* the VerifyStateStore of the two stores' iterators
    vpc,                \* "running", or "panicked" once a verification failed
    vcall,              \* the last call of VerifyStateStore and what it did
    stat_self,          \* the StoreLocalStatistic that add is called on
    stat_adds,          \* how many times add has been called
    lastAdd             \* the last add: self and other before, other after

iterVars == <<source, read_epoch, key_range, it, pc, lastOp, run, emitted,
              clean>>

mvVars == <<materialize_cache, state_table, mvpc, lastMsg>>

vsVars == <<actual, expected, viter, vpc, vcall>>

statVars == <<stat_self, stat_adds, lastAdd>>

\* What the handlers of one component leave alone: the other components.
besidesIter == <<mvVars, vsVars, statVars>>
besidesMv == <<iterVars, vsVars, statVars>>
besidesVs == <<iterVars, mvVars, statVars>>
besidesStat == <<iterVars, mvVars, vsVars>>

vars == <<source, read_epoch, key_range, it, pc, lastOp, run, emitted,
          clean, materialize_cache, state_table, mvpc, lastMsg,
          actual, expected, viter, vpc, vcall, stat_self, stat_adds,
          lastAdd>>

\* ------------------------------------------------- ReverseSortedIterator
\* The cursor is an index into source; Len(source) + 1 is the invalid cursor.
SrcInvalid == Len(source) + 1

SrcIsValid(s) == s.pos <= Len(source)

SrcKey(s) == source[s.pos].key

SrcValue(s) == source[s.pos].value

\* next(): one record further down.
SrcNext(s) == [s EXCEPT !.pos = s.pos + 1]

\* rewind(): the greatest internal key.
SrcRewind(s) == [s EXCEPT !.pos = 1]

\* seek(full_key): the greatest internal key <= full_key.
SrcSeek(s, full_key) ==
    LET hits == {i \in 1..Len(source) : FullKeyLeq(source[i].key, full_key)}
    IN [s EXCEPT !.pos = IF hits = {} THEN SrcInvalid
                         ELSE CHOOSE i \in hits : \A j \in hits : i <= j]

\* ------------------------------------------------- ReverseUserKeyIterator
\* new_with_epoch: the fields of a new iterator over a source not yet
\* positioned.
new_with_epoch ==
    [pos |-> SrcInvalid,
     out_of_range |-> FALSE,
     just_met_new_key |-> FALSE,
     last_key |-> <<>>,
     last_val |-> <<>>,
     last_delete |-> TRUE,
     touched |-> {}]

out_of_range(key) ==
    CASE key_range[1].kind = "Included" -> BytesLess(key, key_range[1].key)
      [] key_range[1].kind = "Excluded" -> BytesLeq(key, key_range[1].key)
      [] OTHER -> FALSE

\* reset that leaves last_delete as the last iteration left it.
ResetKeepsLastDelete(s) ==
    [s EXCEPT !.last_key = <<>>,
              !.just_met_new_key = FALSE,
              !.out_of_range = FALSE]

\* reset that leaves out_of_range as the last iteration left it.
ResetKeepsOutOfRange(s) ==
    [s EXCEPT !.last_key = <<>>,
              !.just_met_new_key = FALSE,
              !.last_delete = TRUE]

reset(s) ==
    [s EXCEPT !.last_key = <<>>,
              !.just_met_new_key = FALSE,
              !.last_delete = TRUE,
              !.out_of_range = FALSE]

\* is_valid as it would be if it followed the source alone.
is_valid_source_only(s) == SrcIsValid(s) /\ ~s.out_of_range

is_valid(s) ==
    LET has_enough_input == SrcIsValid(s) \/ ~s.last_delete
    IN has_enough_input /\ ~s.out_of_range

\* The epoch test left out.
VisibleAlways(epoch) == TRUE

\* The epoch test of next: only versions of the snapshot are read.
Visible(epoch) == epoch <= read_epoch

\* The match with a Delete arm that forgets to set last_delete.
ApplyValueKeepsLive(s, v) ==
    IF v.tag = "Put"
    THEN [s EXCEPT !.last_val = v.val, !.last_delete = FALSE]
    ELSE s

\* The match on the source's value in next (cases 1 and 2(a)).
ApplyValue(s, v) ==
    IF v.tag = "Put"
    THEN [s EXCEPT !.last_val = v.val, !.last_delete = FALSE]
    ELSE [s EXCEPT !.last_delete = TRUE]

\* The fields next may write, as the caller-independent part of a state.
Fields(s) ==
    <<s.last_key, s.last_val, s.last_delete, s.just_met_new_key,
      s.out_of_range>>

\* The loop body without the just_met_new_key branch: the record the last
\* call stopped on is compared with last_key like any other.
LoopBodyNoFlag(s) ==
    LET full_key == SrcKey(s)
        epoch == get_epoch(full_key)
        key == to_user_key(full_key)
    IN IF Visible(epoch)
       THEN IF s.last_key # key
            THEN IF ~s.last_delete
                 THEN [st |-> [s EXCEPT !.just_met_new_key = TRUE],
                       ctl |-> "return"]
                 ELSE LET s1 == [s EXCEPT !.last_key = key]
                      IN IF out_of_range(s1.last_key)
                         THEN [st |-> [s1 EXCEPT !.out_of_range = TRUE],
                               ctl |-> "break"]
                         ELSE [st |-> ApplyValue(s1, SrcValue(s)),
                               ctl |-> "advance"]
            ELSE [st |-> ApplyValue(s, SrcValue(s)), ctl |-> "advance"]
       ELSE [st |-> s, ctl |-> "advance"]

\* The loop body that stops at every new user key, case 2(a), whether or
\* not the last key was deleted.
LoopBodyStopsAlways(s) ==
    LET full_key == SrcKey(s)
        epoch == get_epoch(full_key)
        key == to_user_key(full_key)
    IN IF Visible(epoch)
       THEN IF s.just_met_new_key
            THEN LET s1 == [s EXCEPT !.last_key = key,
                                     !.just_met_new_key = FALSE]
                 IN IF out_of_range(s1.last_key)
                    THEN [st |-> [s1 EXCEPT !.out_of_range = TRUE],
                          ctl |-> "break"]
                    ELSE [st |-> ApplyValue(s1, SrcValue(s)),
                          ctl |-> "advance"]
            ELSE IF s.last_key # key
            THEN [st |-> [s EXCEPT !.just_met_new_key = TRUE],
                  ctl |-> "return"]
            ELSE [st |-> ApplyValue(s, SrcValue(s)), ctl |-> "advance"]
       ELSE [st |-> s, ctl |-> "advance"]

\* The loop body whose case 2(a) returns without setting just_met_new_key.
LoopBodyFlagNotSet(s) ==
    LET full_key == SrcKey(s)
        epoch == get_epoch(full_key)
        key == to_user_key(full_key)
    IN IF Visible(epoch)
       THEN IF s.just_met_new_key
            THEN LET s1 == [s EXCEPT !.last_key = key,
                                     !.just_met_new_key = FALSE]
                 IN IF out_of_range(s1.last_key)
                    THEN [st |-> [s1 EXCEPT !.out_of_range = TRUE],
                          ctl |-> "break"]
                    ELSE [st |-> ApplyValue(s1, SrcValue(s)),
                          ctl |-> "advance"]
            ELSE IF s.last_key # key
            THEN IF ~s.last_delete
                 THEN [st |-> s, ctl |-> "return"]
                 ELSE LET s1 == [s EXCEPT !.last_key = key]
                      IN IF out_of_range(s1.last_key)
                         THEN [st |-> [s1 EXCEPT !.out_of_range = TRUE],
                               ctl |-> "break"]
                         ELSE [st |-> ApplyValue(s1, SrcValue(s)),
                               ctl |-> "advance"]
            ELSE [st |-> ApplyValue(s, SrcValue(s)), ctl |-> "advance"]
       ELSE [st |-> s, ctl |-> "advance"]

\* The loop body that lets the first version met of a user key decide, as
\* the forward iterator does: a later record of the same key is passed over.
LoopBodyFirstVersionWins(s) ==
    LET full_key == SrcKey(s)
        epoch == get_epoch(full_key)
        key == to_user_key(full_key)
    IN IF Visible(epoch)
       THEN IF s.just_met_new_key
            THEN LET s1 == [s EXCEPT !.last_key = key,
                                     !.just_met_new_key = FALSE]
                 IN IF out_of_range(s1.last_key)
                    THEN [st |-> [s1 EXCEPT !.out_of_range = TRUE],
                          ctl |-> "break"]
                    ELSE [st |-> ApplyValue(s1, SrcValue(s)),
                          ctl |-> "advance"]
            ELSE IF s.last_key # key
            THEN IF ~s.last_delete
                 THEN [st |-> [s EXCEPT !.just_met_new_key = TRUE],
                       ctl |-> "return"]
                 ELSE LET s1 == [s EXCEPT !.last_key = key]
                      IN IF out_of_range(s1.last_key)
                         THEN [st |-> [s1 EXCEPT !.out_of_range = TRUE],
                               ctl |-> "break"]
                         ELSE [st |-> ApplyValue(s1, SrcValue(s)),
                               ctl |-> "advance"]
            ELSE [st |-> s, ctl |-> "advance"]
       ELSE [st |-> s, ctl |-> "advance"]

\* One pass of the body of the while loop of next, up to (not including)
\* self.iterator.next().  ctl tells how the pass ends: "advance" (go on to
\* self.iterator.next()), "return" (return Ok(()) from inside the loop) or
\* "break".
LoopBody(s) ==
    LET full_key == SrcKey(s)
        epoch == get_epoch(full_key)
        key == to_user_key(full_key)
    IN IF Visible(epoch)
       THEN IF s.just_met_new_key
            THEN LET s1 == [s EXCEPT !.last_key = key,
                                     !.just_met_new_key = FALSE]
                 IN IF out_of_range(s1.last_key)
                    THEN [st |-> [s1 EXCEPT !.out_of_range = TRUE],
                          ctl |-> "break"]
                    ELSE [st |-> ApplyValue(s1, SrcValue(s)),
                          ctl |-> "advance"]
            ELSE IF s.last_key # key
            THEN IF ~s.last_delete
                 THEN [st |-> [s EXCEPT !.just_met_new_key = TRUE],
                       ctl |-> "return"]
                 ELSE LET s1 == [s EXCEPT !.last_key = key]
                      IN IF out_of_range(s1.last_key)
                         THEN [st |-> [s1 EXCEPT !.out_of_range = TRUE],
                               ctl |-> "break"]
                         ELSE [st |-> ApplyValue(s1, SrcValue(s)),
                               ctl |-> "advance"]
            ELSE [st |-> ApplyValue(s, SrcValue(s)), ctl |-> "advance"]
       ELSE [st |-> s, ctl |-> "advance"]

\* The record of which source positions changed a field of the iterator.
Touch(old, new) ==
    IF Fields(new) # Fields(old)
    THEN [new EXCEPT !.touched = @ \cup {old.pos}]
    ELSE new

RECURSIVE NextLoopAdvancesOnReturn(_, _, _)
\* The while loop whose return of case 2(a) comes after
\* self.iterator.next() instead of before it.
NextLoopAdvancesOnReturn(s, fail, adv) ==
    IF ~SrcIsValid(s) THEN [st |-> s, res |-> "Ok"]
    ELSE LET b == LoopBody(s)
             t == Touch(s, b.st)
         IN IF b.ctl = "break" THEN [st |-> t, res |-> "Ok"]
            ELSE IF fail = 1
                 THEN [st |-> IF adv THEN SrcNext(t) ELSE t, res |-> "Err"]
                 ELSE IF b.ctl = "return"
                 THEN [st |-> SrcNext(t), res |-> "Ok"]
                 ELSE NextLoopAdvancesOnReturn(
                          SrcNext(t), IF fail = 0 THEN 0 ELSE fail - 1, adv)

RECURSIVE NextLoop(_, _, _)
\* The while loop of next.  fail = n > 0: the n-th call of
\* self.iterator.next() from here returns an error (fail = 0: none does);
\* adv: whether the failing call has moved the source cursor.
NextLoop(s, fail, adv) ==
    IF ~SrcIsValid(s) THEN [st |-> s, res |-> "Ok"]
    ELSE LET b == LoopBody(s)
             t == Touch(s, b.st)
         IN IF b.ctl # "advance" THEN [st |-> t, res |-> "Ok"]
            ELSE IF fail = 1
                 THEN [st |-> IF adv THEN SrcNext(t) ELSE t, res |-> "Err"]
                 ELSE NextLoop(SrcNext(t), IF fail = 0 THEN 0 ELSE fail - 1,
                               adv)

\* next that tries to move an invalid source on before it gives up.
next_advances_invalid(s, fail, adv) ==
    IF ~SrcIsValid(s)
    THEN [st |-> SrcNext([s EXCEPT !.last_delete = TRUE]), res |-> "Ok"]
    ELSE NextLoop(s, fail, adv)

\* next that starts by clearing out_of_range.
next_clears_range(s, fail, adv) ==
    LET s0 == [s EXCEPT !.out_of_range = FALSE]
    IN IF ~SrcIsValid(s0)
       THEN [st |-> [s0 EXCEPT !.last_delete = TRUE], res |-> "Ok"]
       ELSE NextLoop(s0, fail, adv)

next(s, fail, adv) ==
    IF ~SrcIsValid(s)
    THEN [st |-> [s EXCEPT !.last_delete = TRUE], res |-> "Ok"]
    ELSE NextLoop(s, fail, adv)

\* seek that puts the source on its greatest key, whatever key it is given.
SeekIgnoresKey(s, user_key, fail, adv) ==
    LET moved == SrcRewind(s)
    IN IF fail = 1
       THEN [st |-> IF adv THEN moved ELSE s, res |-> "Err"]
       ELSE next(reset(moved), IF fail = 0 THEN 0 ELSE fail - 1, adv)

\* seek without the clamp.
SeekTargetUnclamped(user_key) == user_key

\* The clamp of seek: a target above an Included end key becomes the end key.
SeekTarget(user_key) ==
    IF key_range[2].kind = "Included" /\ BytesLess(key_range[2].key, user_key)
    THEN key_range[2].key
    ELSE user_key

\* seek, for an end bound that is not Excluded.  fail = 1: the source's seek
\* fails; fail = n > 1: the (n-1)-th self.iterator.next() of next fails.
seek(s, user_key, fail, adv) ==
    LET full_key == key_with_epoch(SeekTarget(user_key), 0)
        moved == SrcSeek(s, full_key)
    IN IF fail = 1
       THEN [st |-> IF adv THEN moved ELSE s, res |-> "Err"]
       ELSE next(reset(moved), IF fail = 0 THEN 0 ELSE fail - 1, adv)

\* rewind that starts from the top of the source whatever the end bound is.
RewindIgnoresEnd(s, fail, adv) ==
    LET moved == SrcRewind(s)
    IN IF fail = 1
       THEN [st |-> IF adv THEN moved ELSE s, res |-> "Err"]
       ELSE next(reset(moved), IF fail = 0 THEN 0 ELSE fail - 1, adv)

\* The match of rewind with the suffix of the forward iterator's seek
\* (epoch Epoch::MAX, suffix all zero) in the Included arm.
RewindStartMaxEpoch(s) ==
    IF key_range[2].kind = "Included"
    THEN SrcSeek(s, key_range[2].key \o [i \in 1..EPOCH_LEN |-> 0])
    ELSE SrcRewind(s)

\* The match of rewind on the end bound: where the source is put.
RewindStart(s) ==
    IF key_range[2].kind = "Included"
    THEN SrcSeek(s, key_with_epoch(key_range[2].key, 0))
    ELSE SrcRewind(s)

\* rewind, for an end bound that is not Excluded.
rewind(s, fail, adv) ==
    LET moved == RewindStart(s)
    IN IF fail = 1
       THEN [st |-> IF adv THEN moved ELSE s, res |-> "Err"]
       ELSE next(reset(moved), IF fail = 0 THEN 0 ELSE fail - 1, adv)

\* What a call gives when its assert!(self.is_valid()) fails: a panic, no
\* bytes.  (No byte string holds -1.)
AssertionFailed == <<-1>>

\* key without the assertion.
key_unchecked(s) == s.last_key

key(s) == IF is_valid(s) THEN s.last_key ELSE AssertionFailed

value(s) == IF is_valid(s) THEN s.last_val ELSE AssertionFailed


\* --------------------------------------------------- MaterializeExecutor
\* Primary keys (vnode and serialized pk) and serialized rows of the chunks.
MvKeys == {"k1", "k2"}
MvRows == {"a", "b"}
Ops == {"Insert", "Delete", "UpdateDelete", "UpdateInsert"}

None == [tag |-> "None"]
Some(v) == [tag |-> "Some", v |-> v]
OptRows == {None} \cup {Some(v) : v \in MvRows}

\* What MaterializeCache::get returns for a key the cache does not hold.
Miss == [tag |-> "Miss"]

\* A row of a chunk: its op, its key, its value and its visibility bit
\* (every row of a Vis::Compact chunk is visible).
ChunkRows == [op : Ops, key : MvKeys, value : MvRows, vis : BOOLEAN]
StreamChunks == UNION {[1..n -> ChunkRows] : n \in 0..MaxChunkLen}

RowOpInsert(row) == [tag |-> "Insert", row |-> row]
RowOpDelete(old) == [tag |-> "Delete", old |-> old]
RowOpUpdate(old, new) == [tag |-> "Update", old |-> old, new |-> new]

\* MaterializeBuffer: the HashMap from key to RowOp, Entry::Vacant where
\* the key has no op.
VacantEntry == [tag |-> "Vacant"]
BufferNew == [k \in MvKeys |-> VacantEntry]
BufferIsEmpty(b) == \A k \in MvKeys : b[k] = VacantEntry
Buffered(b) == {k \in MvKeys : b[k] # VacantEntry}

BufferInsert(b, pk, val) ==
    IF b[pk] = VacantEntry
    THEN [panic |-> FALSE, buffer |-> [b EXCEPT ![pk] = RowOpInsert(val)]]
    ELSE IF b[pk].tag = "Delete"
    THEN [panic |-> FALSE,
          buffer |-> [b EXCEPT ![pk] = RowOpUpdate(b[pk].old, val)]]
    ELSE [panic |-> TRUE, buffer |-> b]

\* BufferDelete with the delete of a buffered Update taking the entry out.
BufferDeleteDropsUpdate(b, pk, old_value, debug) ==
    IF b[pk] = VacantEntry
    THEN [panic |-> FALSE,
          buffer |-> [b EXCEPT ![pk] = RowOpDelete(old_value)]]
    ELSE IF b[pk].tag = "Insert"
    THEN IF debug /\ b[pk].row # old_value
         THEN [panic |-> TRUE, buffer |-> b]
         ELSE [panic |-> FALSE, buffer |-> [b EXCEPT ![pk] = VacantEntry]]
    ELSE IF b[pk].tag = "Delete"
    THEN [panic |-> TRUE, buffer |-> b]
    ELSE IF debug /\ b[pk].new # old_value
         THEN [panic |-> TRUE, buffer |-> b]
         ELSE [panic |-> FALSE, buffer |-> [b EXCEPT ![pk] = VacantEntry]]

\* debug is the build's debug_assertions: debug_assert_eq! panics in a
\* debug build and is no code in a release build.
BufferDelete(b, pk, old_value, debug) ==
    IF b[pk] = VacantEntry
    THEN [panic |-> FALSE,
          buffer |-> [b EXCEPT ![pk] = RowOpDelete(old_value)]]
    ELSE IF b[pk].tag = "Insert"
    THEN IF debug /\ b[pk].row # old_value
         THEN [panic |-> TRUE, buffer |-> b]
         ELSE [panic |-> FALSE, buffer |-> [b EXCEPT ![pk] = VacantEntry]]
    ELSE IF b[pk].tag = "Delete"
    THEN [panic |-> TRUE, buffer |-> b]
    ELSE IF debug /\ b[pk].new # old_value
         THEN [panic |-> TRUE, buffer |-> b]
         ELSE [panic |-> FALSE,
               buffer |-> [b EXCEPT ![pk] = RowOpDelete(b[pk].old)]]

\* "create buffer from chunk": the visible rows, in the chunk's order.
RECURSIVE BuildBuffer(_, _, _, _)
BuildBuffer(chunk, i, b, debug) ==
    IF i > Len(chunk)
    THEN [panic |-> FALSE, buffer |-> b]
    ELSE LET row == chunk[i]
             r == IF ~row.vis
                  THEN [panic |-> FALSE, buffer |-> b]
                  ELSE IF row.op \in {"Insert", "UpdateInsert"}
                  THEN BufferInsert(b, row.key, row.value)
                  ELSE BufferDelete(b, row.key, row.value, debug)
         IN IF r.panic THEN r ELSE BuildBuffer(chunk, i + 1, r.buffer, debug)

\* The buffers of all chunks, with whether building them panicked.
ChunkBuffers ==
    {BuildBuffer(chunk, 1, BufferNew, debug) :
        chunk \in StreamChunks, debug \in BOOLEAN}

\* Fetch that pushes nothing for a key storage has no row of.
FetchRowsOnly(cache, committed, keys) ==
    [k \in MvKeys |->
        IF k \in keys /\ cache[k] = Miss /\ committed[k] # None
        THEN committed[k] ELSE cache[k]]

\* "ensure all key in cache, get from storage": the keys among `keys` that
\* the cache misses get what keyspace().get reads, the committed rows.
Fetch(cache, committed, keys) ==
    [k \in MvKeys |->
        IF k \in keys /\ cache[k] = Miss THEN committed[k] ELSE cache[k]]

\* CheckRow with a Delete that leaves the cache entry in place when the
\* cached row is not the row the Delete names.
CheckRowDeleteKeepsCache(entry, row_op) ==
    IF entry = Miss
    THEN [cache |-> entry, out |-> row_op, panic |-> TRUE]
    ELSE IF row_op.tag = "Insert"
    THEN [cache |-> Some(row_op.row), panic |-> FALSE,
          out |-> IF entry # None
                  THEN RowOpUpdate(entry.v, row_op.row) ELSE row_op]
    ELSE IF row_op.tag = "Delete"
    THEN IF entry # None
         THEN [cache |-> IF entry.v # row_op.old THEN entry ELSE None,
               panic |-> FALSE,
               out |-> IF entry.v # row_op.old
                       THEN RowOpDelete(entry.v) ELSE row_op]
         ELSE [cache |-> entry, out |-> VacantEntry, panic |-> FALSE]
    ELSE [cache |-> Some(row_op.new), panic |-> FALSE,
          out |-> IF entry # None
                  THEN RowOpUpdate(entry.v, row_op.new)
                  ELSE RowOpInsert(row_op.new)]

\* CheckRow with a Delete and an Update that keep the old row the chunk
\* names, whatever row the cache holds.
CheckRowTrustsChunk(entry, row_op) ==
    IF entry = Miss
    THEN [cache |-> entry, out |-> row_op, panic |-> TRUE]
    ELSE IF row_op.tag = "Insert"
    THEN [cache |-> Some(row_op.row), panic |-> FALSE,
          out |-> IF entry # None
                  THEN RowOpUpdate(entry.v, row_op.row) ELSE row_op]
    ELSE IF row_op.tag = "Delete"
    THEN IF entry # None
         THEN [cache |-> None, panic |-> FALSE, out |-> row_op]
         ELSE [cache |-> entry, out |-> VacantEntry, panic |-> FALSE]
    ELSE [cache |-> Some(row_op.new), panic |-> FALSE,
          out |-> IF entry # None THEN row_op ELSE RowOpInsert(row_op.new)]

\* "do check" for one key: the cache entry and the RowOp of the output
\* (VacantEntry once output.remove has taken the key out); get().unwrap()
\* panics on a key the cache misses.
CheckRow(entry, row_op) ==
    IF entry = Miss
    THEN [cache |-> entry, out |-> row_op, panic |-> TRUE]
    ELSE IF row_op.tag = "Insert"
    THEN [cache |-> Some(row_op.row), panic |-> FALSE,
          out |-> IF entry # None
                  THEN RowOpUpdate(entry.v, row_op.row) ELSE row_op]
    ELSE IF row_op.tag = "Delete"
    THEN IF entry # None
         THEN [cache |-> None, panic |-> FALSE,
               out |-> IF entry.v # row_op.old
                       THEN RowOpDelete(entry.v) ELSE row_op]
         ELSE [cache |-> entry, out |-> VacantEntry, panic |-> FALSE]
    ELSE [cache |-> Some(row_op.new), panic |-> FALSE,
          out |-> IF entry # None
                  THEN RowOpUpdate(entry.v, row_op.new)
                  ELSE RowOpInsert(row_op.new)]

CheckAll(cache, b) ==
    [k \in MvKeys |->
        IF b[k] = VacantEntry
        THEN [cache |-> cache[k], out |-> VacantEntry, panic |-> FALSE]
        ELSE CheckRow(cache[k], b[k])]

\* generator_output: the rows of the chunk to emit, key by key (the order
\* of the keys is the HashMap's); an Update is an UpdateDelete and an
\* UpdateInsert, side by side.
ChunkOp(op, row) == [op |-> op, row |-> row]
generator_output(output) ==
    [k \in MvKeys |->
        IF output[k].tag = "Insert"
        THEN <<ChunkOp("Insert", output[k].row)>>
        ELSE IF output[k].tag = "Delete"
        THEN <<ChunkOp("Delete", output[k].old)>>
        ELSE IF output[k].tag = "Update"
        THEN <<ChunkOp("UpdateDelete", output[k].old),
               ChunkOp("UpdateInsert", output[k].new)>>
        ELSE <<>>]

\* StateTable::write_chunk, row by row: Insert and UpdateInsert put the
\* row, Delete and UpdateDelete take it away.
RECURSIVE WriteRows(_, _, _)
WriteRows(row, ops, i) ==
    IF i > Len(ops) THEN row
    ELSE WriteRows(IF ops[i].op \in {"Insert", "UpdateInsert"}
                   THEN Some(ops[i].row) ELSE None, ops, i + 1)

\* generator_output and StateTable::write_chunk: a key without an op keeps
\* its row.
WriteChunk(current, output) ==
    [k \in MvKeys |-> WriteRows(current[k], generator_output(output)[k], 1)]

\* yielded is the message the handler has yielded for the message taken.
NoMsg ==
    [kind |-> "none", buffer |-> BufferNew, output |-> BufferNew,
     yielded |-> "none"]

\* The executor as MaterializeExecutor::new leaves it: an empty cache and a
\* table without uncommitted rows.
MaterializeNew(committed) ==
    /\ materialize_cache = [k \in MvKeys |-> Miss]
    /\ state_table = [committed |-> committed, current |-> committed]
    /\ mvpc = "init"
    /\ lastMsg = NoMsg

\* The iterator's runs have an executor that takes no message.
MvIdle == MaterializeNew([k \in MvKeys |-> None])


\* ------------------------------------------------------ VerifyStateStore
\* The keys and values of the two stores, and what a store holds.
StoreKeys == <<"k1">>
StoreKeySet == {StoreKeys[i] : i \in DOMAIN StoreKeys}
StoreVals == {"a", "b"}
StorageValues == {None} \cup {Some(v) : v \in StoreVals}
StoreData == [StoreKeySet -> StorageValues]

\* A Result: Ok(v) or Err(e).
ResOk(v) == [ok |-> TRUE, v |-> v, e |-> "none"]
ResErr(e) == [ok |-> FALSE, v |-> None, e |-> e]
NoResult == ResErr("not called")
Panic == ResErr("panic")

\* assert_result_eq that lets two Ok results through whatever they hold.
assert_result_eq_any_ok(first, second) == first.ok = second.ok

\* assert_result_eq: TRUE when it returns, FALSE when it panics.
assert_result_eq(first, second) ==
    IF first.ok /\ second.ok THEN first.v = second.v
    ELSE ~first.ok /\ ~second.ok

\* The stores behind the two type parameters: get reads the row of the
\* key, iter yields the rows held in key order, ingest_batch takes the
\* rows of the ranges out and puts the pairs (a None value takes the row
\* out); a call that fails returns the store's own error and changes
\* nothing.
StoreErr(who) == ResErr(who)

StoreGet(data, who, k, fail) ==
    IF fail THEN StoreErr(who) ELSE ResOk(data[k])

RECURSIVE Rows(_, _)
Rows(data, i) ==
    IF i > Len(StoreKeys) THEN <<>>
    ELSE IF data[StoreKeys[i]] = None THEN Rows(data, i + 1)
    ELSE <<Some(<<StoreKeys[i], data[StoreKeys[i]].v>>)>> \o Rows(data, i + 1)

StoreNext(rows, who, fail) ==
    IF fail THEN [res |-> StoreErr(who), rows |-> rows]
    ELSE IF rows = <<>> THEN [res |-> ResOk(None), rows |-> rows]
    ELSE [res |-> ResOk(Head(rows)), rows |-> Tail(rows)]

StoreIngest(data, who, batch, fail) ==
    IF fail THEN [res |-> StoreErr(who), data |-> data]
    ELSE [res |-> ResOk(Some(Cardinality(DOMAIN batch.kv_pairs))),
          data |-> [k \in StoreKeySet |->
                      IF k \in DOMAIN batch.kv_pairs THEN batch.kv_pairs[k]
                      ELSE IF k \in batch.delete_ranges THEN None
                      ELSE data[k]]]

\* The arguments of ingest_batch: no pair or one pair, the keys the delete
\* ranges cover, the epoch of the write options.
Batches ==
    [kv_pairs : UNION {[S -> StorageValues] :
                          S \in {{}} \cup {{k} : k \in StoreKeySet}},
     delete_ranges : {{}, {StoreKeys[1]}},
     write_options : Epochs]

\* The arguments of get and iter: key or key range, epoch, read options.
ReadArgs == [key : StoreKeySet, epoch : Epochs]

\* A call a handler has made of one of the two stores.
CallOf(who, op, args) == [store |-> who, op |-> op, args |-> args]

NoIter == [open |-> FALSE, actual |-> <<>>, expected |-> <<>>]

NoCall ==
    [op |-> "none", calls |-> <<>>, actual |-> NoResult,
     expected |-> NoResult, res |-> NoResult]

\* A VerifyStateStore that no call is made of.
VsIdle ==
    /\ actual = [k \in StoreKeySet |-> None]
    /\ expected = [k \in StoreKeySet |-> None]
    /\ viter = NoIter
    /\ vpc = "running"
    /\ vcall = NoCall

\* -------------------------------------------------- StoreLocalStatistic
StatFields ==
    {"cache_data_block_miss", "cache_data_block_total",
     "cache_meta_block_miss", "cache_meta_block_total",
     "tiered_cache_total", "tiered_cache_miss", "scan_key_count",
     "processed_key_count", "bloom_filter_true_negative_count",
     "bloom_filter_might_positive_count", "remote_io_time"}

\* #[derive(Default)]: every counter 0.
Default == [f \in StatFields |-> 0]

\* StoreLocalStatistic::add, in the order of its lines; other is borrowed
\* shared and only read.
add(self, other) ==
    [self |->
        [f \in StatFields |->
            IF f = "cache_meta_block_miss"
            THEN self[f] + other["cache_data_block_miss"]
            ELSE self[f] + other[f]],
     other |-> other]

\* The statistics handed to add: no counter set, one counter set to 1 or
\* to MaxAdds, or two counters set to 1.
StatInputs ==
    {Default}
        \cup {[Default EXCEPT ![f] = n] : f \in StatFields, n \in {1, MaxAdds}}
        \cup {[Default EXCEPT ![f] = 1, ![g] = 1] :
                 f \in StatFields, g \in StatFields}

NoAdd == [self |-> Default, other |-> Default, other_after |-> Default]

\* A StoreLocalStatistic that add is not called on.
StatIdle ==
    /\ stat_self = Default
    /\ stat_adds = 0
    /\ lastAdd = NoAdd


\* ---------------------------------------------------------------- actions
ReadEpochs == Epochs
SeekKeys == UserKeys

\* Which call of the source fails in a handler that returns its error.
FailPoints == 1..(MaxRecords + 1)

Init ==
    /\ source \in Streams
    /\ read_epoch \in ReadEpochs
    /\ key_range \in KeyRanges
    /\ it = new_with_epoch
    /\ pc = "running"
    /\ lastOp = [op |-> "new", res |-> "Ok"]
    /\ run = [start |-> "none", target |-> <<>>]
    /\ emitted = <<>>
    /\ clean = TRUE
    /\ MvIdle
    /\ VsIdle
    /\ StatIdle

\* A handler that takes the end bound out of key_range when it has used it.
FixedButEndBound ==
    /\ UNCHANGED <<source, read_epoch>>
    /\ key_range' = <<key_range[1], Unbounded>>

Fixed == UNCHANGED <<source, read_epoch, key_range>>

Observed(s) == <<key(s), value(s)>>

Begin(s) == [s EXCEPT !.touched = {}]

\* A seek or rewind that returned Ok starts a new iteration.
Started(r, op, arg) ==
    /\ it' = r.st
    /\ pc' = pc
    /\ lastOp' = [op |-> op, res |-> "Ok"]
    /\ run' = [start |-> op, target |-> arg]
    /\ emitted' = IF is_valid(r.st) THEN <<Observed(r.st)>> ELSE <<>>
    /\ clean' = TRUE
    /\ Fixed
    /\ UNCHANGED besidesIter

\* A handler that returned the source's error: the iteration is over.
Failed(r, op) ==
    /\ it' = Begin(r.st)
    /\ pc' = pc
    /\ lastOp' = [op |-> op, res |-> "Err"]
    /\ run' = [start |-> "none", target |-> <<>>]
    /\ emitted' = <<>>
    /\ clean' = FALSE
    /\ Fixed
    /\ UNCHANGED besidesIter

\* A handler that ran into unimplemented!.
Panicked(op) ==
    /\ pc' = "panicked"
    /\ lastOp' = [op |-> op, res |-> "Panic"]
    /\ UNCHANGED <<it, run, emitted, clean>>
    /\ Fixed
    /\ UNCHANGED besidesIter

RewindOk ==
    /\ pc = "running"
    /\ key_range[2].kind # "Excluded"
    /\ Started(rewind(Begin(it), 0, FALSE), "rewind", <<>>)

RewindErr ==
    /\ pc = "running"
    /\ key_range[2].kind # "Excluded"
    /\ \E fail \in FailPoints, adv \in BOOLEAN :
          LET r == rewind(Begin(it), fail, adv)
          IN r.res = "Err" /\ Failed(r, "rewind")

\* rewind whose match lets an Excluded end bound fall through to the arm of
\* Unbounded.
RewindExcludedAsUnbounded ==
    /\ pc = "running"
    /\ key_range[2].kind = "Excluded"
    /\ Started(rewind(Begin(it), 0, FALSE), "rewind", <<>>)

RewindPanic ==
    /\ pc = "running"
    /\ key_range[2].kind = "Excluded"
    /\ Panicked("rewind")

SeekOk ==
    /\ pc = "running"
    /\ key_range[2].kind # "Excluded"
    /\ \E k \in SeekKeys : Started(seek(Begin(it), k, 0, FALSE), "seek", k)

SeekErr ==
    /\ pc = "running"
    /\ key_range[2].kind # "Excluded"
    /\ \E k \in SeekKeys, fail \in FailPoints, adv \in BOOLEAN :
          LET r == seek(Begin(it), k, fail, adv)
          IN r.res = "Err" /\ Failed(r, "seek")

SeekPanic ==
    /\ pc = "running"
    /\ key_range[2].kind = "Excluded"
    /\ Panicked("seek")

NextOk ==
    /\ pc = "running"
    /\ LET r == next(Begin(it), 0, FALSE)
       IN /\ it' = r.st
          /\ lastOp' = [op |-> "next", res |-> "Ok"]
          /\ emitted' = IF clean /\ is_valid(r.st)
                        THEN Append(emitted, Observed(r.st)) ELSE emitted
    /\ UNCHANGED <<pc, run, clean>>
    /\ Fixed
    /\ UNCHANGED besidesIter

NextErr ==
    /\ pc = "running"
    /\ \E fail \in FailPoints, adv \in BOOLEAN :
          LET r == next(Begin(it), fail, adv)
          IN r.res = "Err" /\ Failed(r, "next")

\* The iterator over a source that returns no error.
Next ==
    \/ RewindOk
    \/ RewindPanic
    \/ SeekOk
    \/ SeekPanic
    \/ NextOk

Spec == Init /\ [][Next]_vars

\* The iterator over a source whose calls may return an error.
NextFaulty ==
    \/ RewindOk
    \/ SeekOk
    \/ NextOk
    \/ RewindErr
    \/ SeekErr
    \/ NextErr

\* The faulty source is explored over the short streams and the ranges
\* around one key only: an error multiplies the states of every stream.
FaultyRanges ==
    {Unbounded, Included(<<1>>), Excluded(<<1>>)}
        \X {Unbounded, Included(<<1>>)}

InitFaulty ==
    /\ Init
    /\ Len(source) < MaxRecords
    /\ key_range \in FaultyRanges

SpecFaulty == InitFaulty /\ [][NextFaulty]_vars


\* The scan of the tests: rewind(), then next() while is_valid().
\* The ranges of the scans: no bound, and bounds with keys on either side.
DrainRanges ==
    {Unbounded, Included(<<1>>), Excluded(<<>>)}
        \X {Unbounded, Included(<<1>>)}

\* No iterator has been built.
NoIterator ==
    /\ source = <<>>
    /\ read_epoch = 1
    /\ key_range = <<Unbounded, Unbounded>>
    /\ it = new_with_epoch
    /\ pc = "running"
    /\ lastOp = [op |-> "none", res |-> "Ok"]
    /\ run = [start |-> "none", target |-> <<>>]
    /\ emitted = <<>>
    /\ clean = TRUE

\* Before the test has built its tables and its iterator.
InitDrain == NoIterator /\ MvIdle /\ VsIdle /\ StatIdle

\* The test builds its tables, the merged source and the iterator.
DrainBuild ==
    /\ lastOp.op = "none"
    /\ source' \in Streams
    /\ read_epoch' \in ReadEpochs
    /\ key_range' \in DrainRanges
    /\ it' = [new_with_epoch EXCEPT !.pos = Len(source') + 1]
    /\ lastOp' = [op |-> "new", res |-> "Ok"]
    /\ UNCHANGED <<pc, run, emitted, clean>>
    /\ UNCHANGED besidesIter

DrainRewind ==
    /\ lastOp.op = "new"
    /\ RewindOk

DrainNext ==
    /\ run.start = "rewind"
    /\ is_valid(it)
    /\ NextOk

NextDrain ==
    \/ DrainBuild
    \/ DrainRewind
    \/ DrainNext

\* The caller's loop `while is_valid() { ...; next().await }` keeps calling
\* next() for as long as the iterator is valid: weak fairness of DrainNext.
\* DrainNext is enabled exactly when a rewound iterator is valid (a next()
\* from a valid position always changes the state), so WF_vars(DrainNext)
\* is written out with that enabling condition.
DrainFair ==
    \/ []<>(~(run.start = "rewind" /\ is_valid(it)))
    \/ []<><<DrainNext>>_vars
SpecDrain == InitDrain /\ [][NextDrain]_vars /\ DrainFair

\* ------------------------------------------ MaterializeExecutor, messages
\* expect_first_barrier and init_epoch: the first barrier is passed on.
MvFirstBarrier ==
    /\ mvpc = "init"
    /\ mvpc' = "running"
    /\ lastMsg' = [NoMsg EXCEPT !.kind = "Barrier", !.yielded = "Barrier"]
    /\ UNCHANGED <<materialize_cache, state_table>>
    /\ UNCHANGED besidesMv

\* expect_first_barrier on a first message that is no barrier: the
\* executor ends, by panic or by error, and yields nothing.
MvFirstNotBarrier ==
    /\ mvpc = "init"
    /\ mvpc' \in {"panicked", "failed"}
    /\ \E kind \in {"Chunk", "Watermark"} :
          lastMsg' = [NoMsg EXCEPT !.kind = kind]
    /\ UNCHANGED <<materialize_cache, state_table>>
    /\ UNCHANGED besidesMv

\* Message::Chunk, handled to the end (an empty buffer: continue).
MvChunk ==
    /\ mvpc = "running"
    /\ \E built \in ChunkBuffers :
          LET cached == Fetch(materialize_cache, state_table.committed,
                              Buffered(built.buffer))
              checked == CheckAll(cached, built.buffer)
              output == [k \in MvKeys |-> checked[k].out]
          IN /\ ~built.panic
             /\ \A k \in MvKeys : ~checked[k].panic
             /\ IF BufferIsEmpty(built.buffer)
                THEN UNCHANGED <<materialize_cache, state_table>>
                ELSE /\ materialize_cache' =
                            [k \in MvKeys |-> checked[k].cache]
                     /\ state_table' =
                            [state_table EXCEPT
                                !.current = WriteChunk(@, output)]
             /\ lastMsg' = [kind |-> "Chunk", buffer |-> built.buffer,
                            output |-> output,
                            yielded |-> IF BufferIsEmpty(output)
                                        THEN "none" ELSE "Chunk"]
    /\ UNCHANGED mvpc
    /\ UNCHANGED besidesMv

\* Message::Chunk whose buffer panics ("conflict", debug_assert_eq!) or
\* whose check unwraps a key the cache misses ("unwrap_none").
MvChunkPanic ==
    /\ mvpc = "running"
    /\ \E built \in ChunkBuffers :
          LET cached == Fetch(materialize_cache, state_table.committed,
                              Buffered(built.buffer))
              checked == CheckAll(cached, built.buffer)
          IN /\ built.panic \/ \E k \in MvKeys : checked[k].panic
             /\ materialize_cache' =
                    IF built.panic THEN materialize_cache ELSE cached
             /\ mvpc' = IF built.panic THEN "panicked" ELSE "unwrap_none"
    /\ lastMsg' = [NoMsg EXCEPT !.kind = "Chunk"]
    /\ UNCHANGED state_table
    /\ UNCHANGED besidesMv

\* Message::Chunk with keyspace().get returning an error for one of the
\* keys the cache misses: the keys the loop took before it are cached.
MvChunkErr ==
    /\ mvpc = "running"
    /\ \E built \in ChunkBuffers :
          LET missed == {k \in Buffered(built.buffer) :
                            materialize_cache[k] = Miss}
          IN /\ ~built.panic
             /\ \E taken \in SUBSET missed :
                   /\ taken # missed
                   /\ materialize_cache' =
                          Fetch(materialize_cache, state_table.committed,
                                taken)
    /\ mvpc' = "failed"
    /\ lastMsg' = [NoMsg EXCEPT !.kind = "Chunk"]
    /\ UNCHANGED state_table
    /\ UNCHANGED besidesMv

\* MvBarrier passing the barrier on without the commit.
MvBarrierNoCommit ==
    /\ mvpc = "running"
    /\ lastMsg' = [NoMsg EXCEPT !.kind = "Barrier", !.yielded = "Barrier"]
    /\ UNCHANGED <<materialize_cache, state_table, mvpc>>
    /\ UNCHANGED besidesMv

\* Message::Barrier: state_table.commit, then the barrier is passed on.
MvBarrier ==
    /\ mvpc = "running"
    /\ state_table' = [state_table EXCEPT !.committed = state_table.current]
    /\ lastMsg' = [NoMsg EXCEPT !.kind = "Barrier", !.yielded = "Barrier"]
    /\ UNCHANGED <<materialize_cache, mvpc>>
    /\ UNCHANGED besidesMv

\* Message::Barrier with state_table.commit returning an error: the stream
\* ends with the error, the barrier is not passed on.
MvBarrierErr ==
    /\ mvpc = "running"
    /\ mvpc' = "failed"
    /\ lastMsg' = [NoMsg EXCEPT !.kind = "Barrier"]
    /\ UNCHANGED <<materialize_cache, state_table>>
    /\ UNCHANGED besidesMv

\* Message::Watermark: todo!.
MvWatermark ==
    /\ mvpc = "running"
    /\ mvpc' = "panicked"
    /\ lastMsg' = [NoMsg EXCEPT !.kind = "Watermark"]
    /\ UNCHANGED <<materialize_cache, state_table>>
    /\ UNCHANGED besidesMv

\* The table may hold committed rows when the executor is built.
InitMv ==
    /\ NoIterator
    /\ \E committed \in [MvKeys -> OptRows] : MaterializeNew(committed)
    /\ VsIdle
    /\ StatIdle

NextMv ==
    \/ MvFirstBarrier
    \/ MvFirstNotBarrier
    \/ MvChunk
    \/ MvChunkPanic
    \/ MvChunkErr
    \/ MvBarrier
    \/ MvBarrierErr
    \/ MvWatermark

SpecMv == InitMv /\ [][NextMv]_vars


\* ------------------------------------------------ VerifyStateStore, calls
\* A call that has run on both stores and has gone through
\* assert_result_eq: the actual store's result, or the panic.
Verified(op, args, ra, re) ==
    /\ vcall' = [op |-> op,
                 calls |-> <<CallOf("actual", op, args),
                             CallOf("expected", op, args)>>,
                 actual |-> ra, expected |-> re,
                 res |-> IF assert_result_eq(ra, re) THEN ra ELSE Panic]
    /\ vpc' = IF assert_result_eq(ra, re) THEN "running" ELSE "panicked"

\* VerifyStateStore::get
VsGet ==
    /\ vpc = "running"
    /\ \E args \in ReadArgs, failA \in BOOLEAN, failE \in BOOLEAN :
          Verified("get", args,
                   StoreGet(actual, "actual", args.key, failA),
                   StoreGet(expected, "expected", args.key, failE))
    /\ UNCHANGED <<actual, expected, viter>>
    /\ UNCHANGED besidesVs

\* VerifyStateStore::iter, over the keys from args.key on: an error of the
\* actual store is returned before the expected store is called.
VsIter ==
    /\ vpc = "running"
    /\ \E args \in ReadArgs, failA \in BOOLEAN, failE \in BOOLEAN :
          LET from == CHOOSE i \in DOMAIN StoreKeys : StoreKeys[i] = args.key
              opened == ResOk(Some("iterator"))
          IN /\ vcall' =
                    [op |-> "iter",
                     calls |-> IF failA
                               THEN <<CallOf("actual", "iter", args)>>
                               ELSE <<CallOf("actual", "iter", args),
                                      CallOf("expected", "iter", args)>>,
                     actual |-> IF failA THEN StoreErr("actual") ELSE opened,
                     expected |-> IF failA THEN NoResult
                                  ELSE IF failE THEN StoreErr("expected")
                                  ELSE opened,
                     res |-> IF failA THEN StoreErr("actual")
                             ELSE IF failE THEN StoreErr("expected")
                             ELSE opened]
             /\ viter' = IF failA \/ failE THEN viter
                         ELSE [open |-> TRUE,
                               actual |-> Rows(actual, from),
                               expected |-> Rows(expected, from)]
    /\ UNCHANGED <<actual, expected, vpc>>
    /\ UNCHANGED besidesVs

\* StateStoreIter::next of the VerifyStateStore that iter has returned.
VsNext ==
    /\ vpc = "running"
    /\ viter.open
    /\ \E failA \in BOOLEAN, failE \in BOOLEAN :
          LET a == StoreNext(viter.actual, "actual", failA)
              e == StoreNext(viter.expected, "expected", failE)
          IN /\ Verified("next", <<>>, a.res, e.res)
             /\ viter' = [viter EXCEPT !.actual = a.rows,
                                       !.expected = e.rows]
    /\ UNCHANGED <<actual, expected>>
    /\ UNCHANGED besidesVs

\* VerifyStateStore::ingest_batch: the actual store, then the expected
\* store, then assert_eq! of the two is_err.
VsIngestBatch ==
    /\ vpc = "running"
    /\ \E batch \in Batches, failA \in BOOLEAN, failE \in BOOLEAN :
          LET a == StoreIngest(actual, "actual", batch, failA)
              e == StoreIngest(expected, "expected", batch, failE)
          IN /\ actual' = a.data
             /\ expected' = e.data
             /\ vcall' = [op |-> "ingest_batch",
                          calls |-> <<CallOf("actual", "ingest_batch", batch),
                                      CallOf("expected", "ingest_batch",
                                             batch)>>,
                          actual |-> a.res, expected |-> e.res,
                          res |-> IF a.res.ok = e.res.ok
                                  THEN a.res ELSE Panic]
             /\ vpc' = IF a.res.ok = e.res.ok THEN "running" ELSE "panicked"
    /\ UNCHANGED viter
    /\ UNCHANGED besidesVs

\* Forwarded with the call made of the expected store as well.
ForwardedToBoth(op, args, res) ==
    /\ vpc = "running"
    /\ vcall' = [op |-> op,
                 calls |-> <<CallOf("actual", op, args),
                             CallOf("expected", op, args)>>,
                 actual |-> res, expected |-> res, res |-> res]
    /\ UNCHANGED <<expected, viter, vpc>>
    /\ UNCHANGED besidesVs

\* A call handed to the actual store alone, which returns res.
Forwarded(op, args, res) ==
    /\ vpc = "running"
    /\ vcall' = [op |-> op, calls |-> <<CallOf("actual", op, args)>>,
                 actual |-> res, expected |-> NoResult, res |-> res]
    /\ UNCHANGED <<expected, viter, vpc>>
    /\ UNCHANGED besidesVs

\* VerifyStateStore::try_wait_epoch
VsTryWaitEpoch ==
    /\ \E epoch \in Epochs, fail \in BOOLEAN :
          Forwarded("try_wait_epoch", epoch,
                    IF fail THEN StoreErr("actual") ELSE ResOk(None))
    /\ UNCHANGED actual

\* VerifyStateStore::sync
VsSync ==
    /\ \E epoch \in Epochs, fail \in BOOLEAN :
          Forwarded("sync", epoch,
                    IF fail THEN StoreErr("actual") ELSE ResOk(None))
    /\ UNCHANGED actual

\* VerifyStateStore::seal_epoch
VsSealEpoch ==
    /\ \E epoch \in Epochs, is_checkpoint \in BOOLEAN :
          Forwarded("seal_epoch", <<epoch, is_checkpoint>>, ResOk(None))
    /\ UNCHANGED actual

\* VerifyStateStore::clear_shared_buffer: the actual store drops the rows
\* it holds in its shared buffer, whichever they are.
VsClearSharedBuffer ==
    /\ \E fail \in BOOLEAN :
          Forwarded("clear_shared_buffer", <<>>,
                    IF fail THEN StoreErr("actual") ELSE ResOk(None))
    /\ \E kept \in SUBSET StoreKeySet :
          actual' = [k \in StoreKeySet |->
                        IF k \in kept THEN actual[k] ELSE None]

\* The two stores as they are handed to the VerifyStateStore: they need
\* not hold the same rows.
InitVs ==
    /\ NoIterator
    /\ MvIdle
    /\ StatIdle
    /\ actual \in StoreData
    /\ expected \in StoreData
    /\ viter = NoIter
    /\ vpc = "running"
    /\ vcall = NoCall

NextVs ==
    \/ VsGet
    \/ VsIter
    \/ VsNext
    \/ VsIngestBatch
    \/ VsTryWaitEpoch
    \/ VsSync
    \/ VsSealEpoch
    \/ VsClearSharedBuffer

SpecVs == InitVs /\ [][NextVs]_vars

\* ------------------------------------------- StoreLocalStatistic, calls
\* a.add(&b)
StatAdd ==
    /\ stat_adds < MaxAdds
    /\ \E other \in StatInputs :
          LET r == add(stat_self, other)
          IN /\ stat_self' = r.self
             /\ lastAdd' = [self |-> stat_self, other |-> other,
                            other_after |-> r.other]
    /\ stat_adds' = stat_adds + 1
    /\ UNCHANGED besidesStat

InitStat == NoIterator /\ MvIdle /\ VsIdle /\ StatIdle

NextStat == StatAdd

SpecStat == InitStat /\ [][NextStat]_vars


\* ----------------------------------------------------------- ground truth
\* What the snapshot holds, read off the records, not off the iterator.
UserKeyAt(i) == to_user_key(source[i].key)

EpochAt(i) == get_epoch(source[i].key)

InSnapshot(i) == EpochAt(i) <= read_epoch

VisibleVersions(uk) ==
    {i \in DOMAIN source : UserKeyAt(i) = uk /\ InSnapshot(i)}

Newest(uk) ==
    CHOOSE i \in VisibleVersions(uk) :
        \A j \in VisibleVersions(uk) : EpochAt(j) <= EpochAt(i)

Live(uk) ==
    VisibleVersions(uk) # {} /\ source[Newest(uk)].value.tag = "Put"

Tombstoned(uk) ==
    VisibleVersions(uk) # {} /\ source[Newest(uk)].value.tag = "Delete"

LiveValue(uk) == source[Newest(uk)].value.val

AboveStart(uk) ==
    CASE key_range[1].kind = "Included" -> BytesLeq(key_range[1].key, uk)
      [] key_range[1].kind = "Excluded" -> BytesLess(key_range[1].key, uk)
      [] OTHER -> TRUE

BelowEnd(uk) ==
    CASE key_range[2].kind = "Included" -> BytesLeq(uk, key_range[2].key)
      [] key_range[2].kind = "Excluded" -> BytesLess(uk, key_range[2].key)
      [] OTHER -> TRUE

InKeyRange(uk) == AboveStart(uk) /\ BelowEnd(uk)

RECURSIVE Descending(_)
\* The live pairs of a set of user keys, greatest key first.
Descending(keys) ==
    IF keys = {} THEN <<>>
    ELSE LET top == CHOOSE k \in keys : \A q \in keys : BytesLeq(q, k)
         IN <<<<top, LiveValue(top)>>>> \o Descending(keys \ {top})

\* What a full scan of key_range has to show.
RangeScan == Descending({uk \in UserKeys : Live(uk) /\ InKeyRange(uk)})

IsPrefix(a, b) == Len(a) <= Len(b) /\ SubSeq(b, 1, Len(a)) = a

Ok(op) == pc = "running" /\ lastOp = [op |-> op, res |-> "Ok"]

\* ---------------------------------------------------------------- claims
\* C1: rewind() and then next() until is_valid() is false shows exactly the
\* user keys inside key_range whose newest version of the snapshot is a Put,
\* greatest first, each with that Put's payload, and is invalid right after
\* the last of them.
C1_RewindScansRange ==
    (pc = "running" /\ run.start = "rewind") =>
        /\ IsPrefix(emitted, RangeScan)
        /\ ~is_valid(it) => emitted = RangeScan


\* C2: a user key whose newest version of the snapshot is a Delete is never
\* shown by key(), whatever older Puts it has and however its versions lie in
\* the merged sources; a Put of the snapshot above an older Delete makes the
\* key live with the payload of that Put, and a full scan shows it.
PutOverDelete(uk) ==
    /\ Live(uk)
    /\ \E i \in VisibleVersions(uk) : source[i].value.tag = "Delete"

Shown == {emitted[i] : i \in DOMAIN emitted}

C2_TombstoneMasks ==
    /\ is_valid(it) =>
          /\ ~Tombstoned(key(it))
          /\ PutOverDelete(key(it)) => value(it) = LiveValue(key(it))
    /\ (Ok("next") /\ run.start = "rewind" /\ ~is_valid(it)) =>
          \A uk \in UserKeys :
              (PutOverDelete(uk) /\ InKeyRange(uk)) =>
                  <<uk, LiveValue(uk)>> \in Shown

C2_Witness ==
    /\ Ok("next")
    /\ run.start = "rewind"
    /\ ~is_valid(it)
    /\ emitted # <<>>
    /\ \E uk \in UserKeys :
          /\ Tombstoned(uk)
          /\ InKeyRange(uk)
          /\ \E i \in VisibleVersions(uk) : source[i].value.tag = "Put"

\* C3: a record with epoch > read_epoch changes none of last_key, last_val,
\* last_delete, just_met_new_key and out_of_range, so the pair key()/value()
\* shows is the key and the payload of a Put record with epoch <= read_epoch.
C3_SnapshotOnly ==
    /\ \A i \in it.touched : InSnapshot(i)
    /\ is_valid(it) =>
          \E i \in DOMAIN source :
              /\ InSnapshot(i)
              /\ UserKeyAt(i) = key(it)
              /\ source[i].value = Put(value(it))

C3_Witness ==
    /\ Ok("next")
    /\ is_valid(it)
    /\ Len(emitted) = 2
    /\ \E i \in DOMAIN source :
          /\ ~InSnapshot(i)
          /\ i < it.pos
          /\ UserKeyAt(i) = key(it)
          /\ source[i].value.tag = "Delete"

\* C4: between two seek/rewind calls the keys key() shows at the successive
\* valid positions are strictly decreasing, so none is shown twice.
C4_StrictlyDecreasing ==
    \A i, j \in DOMAIN emitted :
        i < j => BytesLess(emitted[j][1], emitted[i][1])

C4_Witness ==
    /\ Ok("next")
    /\ is_valid(it)
    /\ Len(emitted) = 2
    /\ \E i, j \in DOMAIN source :
          /\ i # j
          /\ UserKeyAt(i) = UserKeyAt(j)
          /\ InSnapshot(i) /\ source[i].value.tag = "Put"
          /\ InSnapshot(j) /\ source[j].value.tag = "Put"

\* C5: every key key() shows lies inside both bounds of key_range, after
\* rewind, after seek to any target and after every next, the empty user key
\* included.
C5_InsideRange == is_valid(it) => InKeyRange(key(it))

\* C6: when the source runs out while the last group visited ended on a live
\* Put, is_valid() stays true and key()/value() show that last group; the
\* next() after that makes the iterator invalid.
LastGroup == UserKeyAt(CHOOSE i \in DOMAIN source :
                           InSnapshot(i) /\
                           \A j \in DOMAIN source : InSnapshot(j) => j <= i)

C6_LastGroupKept ==
    [][/\ ( /\ \/ is_valid(it) /\ lastOp'.op = "next"
               \/ lastOp'.op \in {"seek", "rewind"}
            /\ lastOp'.res = "Ok"
            /\ ~SrcIsValid(it')
            /\ ~it'.last_delete )
          => /\ is_valid(it')
             /\ key(it') = LastGroup
             /\ value(it') = LiveValue(LastGroup)
       /\ ( /\ is_valid(it)
            /\ ~SrcIsValid(it)
            /\ lastOp'.op = "next" )
          => ~is_valid(it')]_vars

C6_Witness ==
    /\ Ok("next")
    /\ is_valid(it)
    /\ ~SrcIsValid(it)
    /\ Len(emitted) >= 2

\* C7: after seek(k) returned Ok the iterator stands on the greatest user
\* key <= k (k clamped to an Included end key) whose newest version of the
\* snapshot is a Put, if that key is inside the start bound; otherwise
\* is_valid() is false.
Clamped(k) ==
    IF key_range[2].kind = "Included" /\ BytesLess(key_range[2].key, k)
    THEN key_range[2].key ELSE k

LiveAtOrBelow(k) == {uk \in UserKeys : Live(uk) /\ BytesLeq(uk, k)}

Greatest(keys) == CHOOSE k \in keys : \A q \in keys : BytesLeq(q, k)

C7_SeekLands ==
    (Ok("seek") /\ run.start = "seek") =>
        LET below == LiveAtOrBelow(Clamped(run.target))
        IN IF below # {} /\ AboveStart(Greatest(below))
           THEN /\ is_valid(it)
                /\ key(it) = Greatest(below)
                /\ value(it) = LiveValue(Greatest(below))
           ELSE ~is_valid(it)

\* C8: whenever is_valid() is true, last_key is not empty, last_delete is
\* false and last_key lies inside key_range.
C8_ValidState ==
    is_valid(it) =>
        /\ it.last_key # <<>>
        /\ ~it.last_delete
        /\ InKeyRange(it.last_key)

\* C9: after next() returned Ok, is_valid() is true exactly if last_delete
\* and out_of_range are both false, whether or not the source is still
\* valid.
C9_ValidAfterNext ==
    (pc = "running" /\ lastOp.res = "Ok" /\ lastOp.op # "new") =>
        (is_valid(it) <=> (~it.last_delete /\ ~it.out_of_range))

C9_Witness ==
    /\ Ok("next")
    /\ SrcIsValid(it)
    /\ is_valid(it)

RECURSIVE Drain(_, _)
\* What the caller sees from state s on, calling next() while is_valid().
Drain(s, n) ==
    IF n = 0 \/ ~is_valid(s) THEN <<>>
    ELSE <<Observed(s)>> \o Drain(next(s, 0, FALSE).st, n - 1)

Position(s) == IF is_valid(s) THEN <<TRUE, key(s), value(s)>> ELSE <<FALSE>>

\* C10: with end bound Included(hi), seek(k) for k > hi leaves the iterator
\* at the position of seek(hi), with the same keys to follow, and no key
\* above hi is ever shown.
C10_SeekClamped ==
    (pc = "running" /\ key_range[2].kind = "Included") =>
        /\ \A k \in SeekKeys :
              BytesLess(key_range[2].key, k) =>
                  LET a == seek(Begin(it), k, 0, FALSE).st
                      b == seek(Begin(it), key_range[2].key, 0, FALSE).st
                  IN /\ Position(a) = Position(b)
                     /\ Drain(a, Len(source) + 1) = Drain(b, Len(source) + 1)
        /\ is_valid(it) => BytesLeq(key(it), key_range[2].key)
        /\ (Ok("seek") /\ BytesLess(key_range[2].key, run.target)) =>
              Position(it) =
                  Position(seek(Begin(it), key_range[2].key, 0, FALSE).st)

C10_Witness ==
    /\ Ok("seek")
    /\ key_range[2].kind = "Included"
    /\ BytesLess(key_range[2].key, run.target)
    /\ is_valid(it)
    /\ SrcIsValid(it)
    /\ \E i \in DOMAIN source :
          InSnapshot(i) /\ BytesLess(key_range[2].key, UserKeyAt(i))
                        /\ BytesLeq(UserKeyAt(i), run.target)
                        /\ source[i].value.tag = "Put"

\* The greatest user key with a record in the source.
MaxUserKey == Greatest({UserKeyAt(i) : i \in DOMAIN source})

\* The key seek is given to start where rewind starts: the Included end key,
\* or, with no end bound, the greatest user key present.
RewindKey ==
    IF key_range[2].kind = "Included" THEN key_range[2].key ELSE MaxUserKey

\* C11: rewind() and then next() until invalid shows the same pairs as
\* seek(hi) and then next() until invalid, hi being the Included end key or,
\* with an Unbounded end, the greatest user key present in the source.
C11_RewindAsSeek ==
    ( /\ pc = "running"
      /\ key_range[2].kind # "Excluded"
      /\ key_range[2].kind = "Unbounded" => source # <<>> ) =>
        LET a == rewind(Begin(it), 0, FALSE).st
            b == seek(Begin(it), RewindKey, 0, FALSE).st
        IN /\ Position(a) = Position(b)
           /\ Drain(a, Len(source) + 1) = Drain(b, Len(source) + 1)
           /\ Ok("rewind") => Position(it) = Position(b)
           /\ (Ok("seek") /\ run.target = RewindKey) =>
                  Position(it) = Position(a)

C11_Witness ==
    /\ Ok("rewind")
    /\ is_valid(it)
    /\ SrcIsValid(it)
    /\ key_range[2].kind = "Included"
    /\ \E i \in DOMAIN source :
          /\ InSnapshot(i)
          /\ source[i].value.tag = "Put"
          /\ BytesLess(key_range[2].key, UserKeyAt(i))

\* What the caller can see of state s: the position and the pairs to come.
Seen(s) == <<Position(s), Drain(s, Len(source) + 1)>>

\* C12: from any reachable state, seek(k) called twice with the same k
\* leaves the caller the view of seek(k) called once: the same is_valid(),
\* key(), value() and the same pairs to follow.  (SeekOk is taken from
\* every running state, so the states after it are the states after the
\* first seek; the second seek is applied to each of them.)
C12_SeekIdempotent ==
    Ok("seek") => Seen(seek(Begin(it), run.target, 0, FALSE).st) = Seen(it)

C12_Witness ==
    /\ Ok("seek")
    /\ is_valid(it)
    /\ SrcIsValid(it)
    /\ it.just_met_new_key
    /\ \E i \in DOMAIN source :
          /\ i < it.pos
          /\ InSnapshot(i)
          /\ UserKeyAt(i) # key(it)
          /\ BytesLeq(UserKeyAt(i), run.target)

\* state a of a used iterator and state f of a new one agree in the source
\* cursor, in every field reset clears and in what the caller can see.
AsFresh(a, f) ==
    /\ a.pos = f.pos
    /\ a.out_of_range = f.out_of_range
    /\ a.just_met_new_key = f.just_met_new_key
    /\ a.last_key = f.last_key
    /\ a.last_delete = f.last_delete
    /\ Seen(a) = Seen(f)

\* C13: a seek or rewind that returns Ok starts afresh whatever came before:
\* after the iterator ran to exhaustion or crossed the start bound, the call
\* leaves out_of_range, just_met_new_key, last_key, the position and the
\* pairs to follow as the same call leaves them on a new iterator over the
\* same source.
C13_Reinitialized ==
    /\ Ok("rewind") => AsFresh(it, rewind(new_with_epoch, 0, FALSE).st)
    /\ Ok("seek") => AsFresh(it, seek(new_with_epoch, run.target, 0, FALSE).st)

C13_Witness ==
    /\ Ok("next")
    /\ it.out_of_range
    /\ emitted # <<>>
    /\ is_valid(rewind(Begin(it), 0, FALSE).st)

\* C14: with an Excluded end bound rewind() and seek() fail loudly: neither
\* ever returns Ok, the source is never positioned as it would be for an
\* Included or absent bound, and no key is ever published.
C14_ExcludedEndFails ==
    key_range[2].kind = "Excluded" =>
        /\ lastOp.op \in {"seek", "rewind"} =>
              (pc = "panicked" /\ lastOp.res = "Panic")
        /\ it.pos = SrcInvalid
        /\ ~is_valid(it)
        /\ emitted = <<>>

C14_Witness ==
    /\ pc = "panicked"
    /\ lastOp.op = "seek"
    /\ key_range[2].kind = "Excluded"
    /\ \E uk \in UserKeys : Live(uk) /\ InKeyRange(uk)

\* C15: key() and value() called while is_valid() is false trip the
\* assertion and return no data; called while is_valid() is true they return
\* last_key and last_val, and these belong to one user-key group: last_val
\* is the payload of the newest Put of the snapshot for user key last_key.
C15_KeyValueGuarded ==
    /\ ~is_valid(it) =>
          (key(it) = AssertionFailed /\ value(it) = AssertionFailed)
    /\ is_valid(it) =>
          /\ key(it) = it.last_key
          /\ value(it) = it.last_val
          /\ Live(it.last_key)
          /\ it.last_val = LiveValue(it.last_key)

C15_Witness ==
    /\ Ok("next")
    /\ ~is_valid(it)
    /\ emitted # <<>>
    /\ it.last_key # emitted[Len(emitted)][1]
    /\ it.last_val = emitted[Len(emitted)][2]

\* C16: once next(), seek() or rewind() has returned an error of the source,
\* is_valid() is false, and stays false until a later seek or rewind returns
\* Ok.
C16_InvalidAfterError == ~clean => ~is_valid(it)

\* C18: read_epoch and key_range are set at construction and no call of
\* rewind, seek or next (key, value and is_valid only read) changes them.
C18_ConfigFixed ==
    [][read_epoch' = read_epoch /\ key_range' = key_range]_vars

C18_Witness ==
    /\ Ok("next")
    /\ run.start = "seek"
    /\ Len(emitted) >= 2
    /\ key_range[1].kind # "Unbounded"
    /\ key_range[2].kind = "Included"
    /\ BytesLess(key_range[2].key, run.target)

\* C19: under plain ascending byte comparison of whole internal keys, for
\* user keys a < b (one may be a prefix of the other) every internal key of
\* a sorts before every internal key of b, and for one user key the larger
\* epoch gives the smaller internal key.  Stated of the internal keys the
\* records of the source carry.
C19_PlainByteOrder ==
    \A i, j \in DOMAIN source :
        /\ BytesLess(UserKeyAt(i), UserKeyAt(j)) =>
              BytesLess(source[i].key, source[j].key)
        /\ (UserKeyAt(i) = UserKeyAt(j) /\ EpochAt(i) > EpochAt(j)) =>
              BytesLess(source[i].key, source[j].key)

\* Epochs on both sides of every byte boundary TLC's integers reach.
CodecEpochs == {0, 1, 2, 255, 256, 65535, 65536, 16777216, 2147483647}

\* C20: the codec round-trips: to_user_key(key_with_epoch(uk, e)) = uk and
\* get_epoch(key_with_epoch(uk, e)) = e, for the keys seek builds, for the
\* keys of the records (whose Put payload names the user key and the epoch
\* they were built from) and for epochs across the byte boundaries; the
\* source and key_range never change, so these are read off the new
\* iterator.  A pair the iterator shows names a version of the snapshot.
C20_CodecRoundTrip ==
    /\ lastOp.op = "new" =>
          /\ \A i \in DOMAIN source :
                source[i].value.tag = "Put" =>
                    source[i].value.val
                        = test_value_of(UserKeyAt(i), EpochAt(i))
          /\ \A k \in SeekKeys :
                LET full_key == key_with_epoch(SeekTarget(k), 0)
                IN /\ to_user_key(full_key) = SeekTarget(k)
                   /\ get_epoch(full_key) = 0
          /\ \A uk \in UserKeys, e \in CodecEpochs :
                LET full_key == key_with_epoch(uk, e)
                IN to_user_key(full_key) = uk /\ get_epoch(full_key) = e
    /\ is_valid(it) =>
          \E e \in Epochs :
              e <= read_epoch /\ value(it) = test_value_of(key(it), e)

C20_Witness ==
    /\ Ok("next")
    /\ is_valid(it)
    /\ read_epoch = 2
    /\ key(it) = <<1>>
    /\ value(it) = test_value_of(<<1>>, 2)
    /\ \E i \in DOMAIN source : UserKeyAt(i) = <<2>> /\ EpochAt(i) = 1

\* The records the source yields, as a set.
RecordsOf == {source[i] : i \in DOMAIN source}

\* C21: the reverse merged iterator yields every record of every table
\* exactly once, in strictly descending internal-key order however the
\* records are spread over the tables, so the versions of one user key come
\* oldest first; and its seek(ik) stands on the greatest internal key <= ik,
\* or is invalid when there is none.  (No handler writes the source, so the
\* stream is read off the new iterator.)
C21_MergedDescending ==
    lastOp.op = "new" =>
          /\ \A i, j \in DOMAIN source :
                i < j =>
                    /\ FullKeyLess(source[j].key, source[i].key)
                    /\ UserKeyAt(i) = UserKeyAt(j) => EpochAt(i) < EpochAt(j)
          /\ Len(source) = Cardinality(RecordsOf)
          /\ \A place \in [RecordsOf -> TableIds] :
                Merge([t \in TableIds |->
                         SortDesc({r \in RecordsOf : place[r] = t})]) = source
          /\ \A k \in SeekKeys, e \in {0} \cup Epochs :
                LET ik == key_with_epoch(k, e)
                    p == SrcSeek(it, ik).pos
                    below == {j \in DOMAIN source :
                                FullKeyLeq(source[j].key, ik)}
                IN IF below = {} THEN p = SrcInvalid
                   ELSE /\ p \in below
                        /\ \A j \in below :
                              FullKeyLeq(source[j].key, source[p].key)

C21_Witness ==
    /\ Ok("next")
    /\ is_valid(it)
    /\ Len(source) = MaxRecords
    /\ \E i, j \in DOMAIN source :
          /\ i < j
          /\ UserKeyAt(i) = UserKeyAt(j)
          /\ InSnapshot(i) /\ InSnapshot(j)
          /\ source[i].value.tag = "Put"
          /\ source[j].value = Put(value(it))

\* ------------------------------------------- forward user-key iterator
\* The forward merged stream over the same tables: ascending internal keys,
\* so each user key's versions come newest first.
ForwardStream == [i \in DOMAIN source |-> source[Len(source) + 1 - i]]

RECURSIVE ForwardWalk(_, _, _)
\* The forward user-key scan of an unbounded range from record i on; last is
\* the user key of the group already decided (none yet: [set |-> FALSE]).
\* A record of the decided group is passed over; the first record of a new
\* group decides the group by its first version with epoch <= read_epoch:
\* a Put is published, a Delete or no such version publishes nothing.
ForwardWalk(i, last, acc) ==
    IF i > Len(ForwardStream) THEN acc
    ELSE LET uk == to_user_key(ForwardStream[i].key)
         IN IF last.set /\ last.key = uk
            THEN ForwardWalk(i + 1, last, acc)
            ELSE LET vis == {j \in i..Len(ForwardStream) :
                               /\ to_user_key(ForwardStream[j].key) = uk
                               /\ get_epoch(ForwardStream[j].key)
                                      <= read_epoch}
                     first == CHOOSE j \in vis : \A q \in vis : j <= q
                     shown == IF vis # {}
                                 /\ ForwardStream[first].value.tag = "Put"
                              THEN <<<<uk, ForwardStream[first].value.val>>>>
                              ELSE <<>>
                 IN ForwardWalk(i + 1, [set |-> TRUE, key |-> uk],
                                acc \o shown)

\* rewind and next until invalid, on the forward iterator.
ForwardScan == ForwardWalk(1, [set |-> FALSE, key |-> <<>>], <<>>)

Reversed(seq) == [i \in DOMAIN seq |-> seq[Len(seq) + 1 - i]]

C23_StoppedOnNewGroup ==
    ( /\ pc = "running"
      /\ lastOp.res = "Ok" /\ lastOp.op # "new"
      /\ is_valid(it)
      /\ SrcIsValid(it) ) =>
        LET rec == source[it.pos]
            uk == UserKeyAt(it.pos)
            b == LoopBody(it)
        IN /\ it.just_met_new_key
           /\ ~it.last_delete
           /\ InSnapshot(it.pos)
           /\ BytesLess(uk, it.last_key)
           /\ \A j \in 1..(it.pos - 1) : ~(InSnapshot(j) /\ UserKeyAt(j) = uk)
           /\ it.last_val = LiveValue(it.last_key)
           /\ b.st.last_key = uk
           /\ ~b.st.just_met_new_key
           /\ b.ctl \in {"advance", "break"}
           /\ b.ctl = "advance" =>
                 /\ b.st.last_delete = (rec.value.tag = "Delete")
                 /\ rec.value.tag = "Put" => b.st.last_val = rec.value.val

C23_Witness ==
    /\ Ok("rewind")
    /\ is_valid(it)
    /\ SrcIsValid(it)
    /\ it.pos = MaxRecords
    /\ \E j \in 1..(it.pos - 1) : ~InSnapshot(j) /\ UserKeyAt(j) = it.last_key

\* C24: once is_valid() is false after a next() that returned Ok (alone or
\* inside seek/rewind), every further next() returns Ok and leaves
\* is_valid() false, and out_of_range stays set while those calls go on
\* reading the source; only seek or rewind makes the iterator valid again.
C24_InvalidIsSticky ==
    [][( /\ pc = "running"
         /\ lastOp.res = "Ok" /\ lastOp.op # "new"
         /\ ~is_valid(it)
         /\ lastOp'.op = "next" )
       => /\ lastOp'.res = "Ok"
          /\ ~is_valid(it')
          /\ it.out_of_range => it'.out_of_range]_vars

C24_Witness ==
    /\ Ok("next")
    /\ ~is_valid(it)
    /\ it.out_of_range
    /\ ~it.last_delete
    /\ SrcIsValid(it)

\* The records of the end key.
VersionsOfEnd == {j \in DOMAIN source : UserKeyAt(j) = key_range[2].key}

\* C25 as stated: after rewind() with end bound Included(hi), hi having
\* several versions in the source, the first record visited (where the seek
\* to key_with_epoch(hi, 0) puts the source) is the newest version of hi.
C25_FirstVisitedNewest ==
    ( /\ pc = "running"
      /\ key_range[2].kind = "Included"
      /\ Cardinality(VersionsOfEnd) >= 2 ) =>
        LET p == RewindStart(Begin(it)).pos
        IN /\ p \in VersionsOfEnd
           /\ \A j \in VersionsOfEnd : EpochAt(j) <= EpochAt(p)

\* C25 amended: the first record visited is the OLDEST version of hi; no
\* record above it is read, hi's versions follow oldest to newest, and the
\* newest one of the snapshot decides what rewind shows for hi (when hi is
\* inside the start bound).
C25_FirstVisitedOldest ==
    ( /\ pc = "running"
      /\ key_range[2].kind = "Included"
      /\ Cardinality(VersionsOfEnd) >= 2 ) =>
        LET p == RewindStart(Begin(it)).pos
        IN /\ p \in VersionsOfEnd
           /\ \A j \in VersionsOfEnd : EpochAt(p) <= EpochAt(j) /\ p <= j
           /\ Ok("rewind") =>
                 /\ \A i \in it.touched : p <= i
                 /\ p <= it.pos
                 /\ (Live(key_range[2].key) /\ AboveStart(key_range[2].key)) =>
                       /\ is_valid(it)
                       /\ key(it) = key_range[2].key
                       /\ value(it) = LiveValue(key_range[2].key)

C25_Witness ==
    /\ Ok("rewind")
    /\ key_range[2].kind = "Included"
    /\ is_valid(it)
    /\ key(it) = key_range[2].key
    /\ key(it) # <<>>
    /\ \E i, j \in VersionsOfEnd :
          /\ i < j
          /\ InSnapshot(j)
          /\ source[i].value.tag = "Delete"
    /\ \E i \in DOMAIN source : BytesLess(key_range[2].key, UserKeyAt(i))

Least(keys) == CHOOSE k \in keys : \A q \in keys : BytesLeq(k, q)

C28_SourceCallsGuarded ==
    [][/\ it'.pos \in 1..SrcInvalid
       /\ it'.touched \subseteq DOMAIN source
       /\ (pc = "running" /\ ~SrcIsValid(it) /\ lastOp'.op = "next") =>
             /\ lastOp'.res = "Ok"
             /\ it' = [Begin(it) EXCEPT !.last_delete = TRUE]]_vars

C28_Witness ==
    /\ Ok("next")
    /\ ~SrcIsValid(it)
    /\ it.last_delete
    /\ ~it.out_of_range
    /\ emitted # <<>>
    /\ it.last_key = emitted[Len(emitted)][1]
    /\ Len(source) = MaxRecords

\* C29: over a finite source that returns no error every call ends, each
\* pass of the loop of next returning, breaking or moving the source one
\* record on: a next() from a valid position moves the source on or leaves
\* the iterator invalid, so the positions shown never outnumber the records,
\* and next() called again and again after rewind() reaches
\* is_valid() = false.
C29_ScanEnds ==
    /\ [][(is_valid(it) /\ lastOp'.op = "next") =>
            /\ lastOp'.res = "Ok"
            /\ it'.pos > it.pos \/ ~is_valid(it')
            /\ Len(emitted') <= Len(source)]_vars
    /\ (Ok("rewind") ~> ~is_valid(it))

C29_Witness ==
    /\ Ok("next")
    /\ run.start = "rewind"
    /\ ~is_valid(it)
    /\ Len(emitted) = MaxRecords

\* ---------------------------------------------------------------- C30
Processed == mvpc = "running" /\ lastMsg.kind = "Chunk"

\* C30: once the executor has processed a chunk, the cache entry of every
\* key the chunk's buffer holds an op for is the row the table now holds:
\* Some(new row) for an Insert or an Update, None for a Delete, the Delete
\* of a key that was absent included.
C30_CacheIsTable ==
    Processed =>
        \A k \in Buffered(lastMsg.buffer) :
            LET op == lastMsg.buffer[k]
            IN /\ materialize_cache[k] = state_table.current[k]
               /\ op.tag = "Insert" => materialize_cache[k] = Some(op.row)
               /\ op.tag = "Update" => materialize_cache[k] = Some(op.new)
               /\ op.tag = "Delete" => materialize_cache[k] = None

\* A chunk has deleted a key that was absent, its op dropped from the
\* output, and has inserted over a row the table held.
C30_Witness ==
    /\ Processed
    /\ \E k \in MvKeys :
          /\ lastMsg.buffer[k].tag = "Delete"
          /\ lastMsg.output[k] = VacantEntry
          /\ state_table.committed[k] = None
    /\ \E k \in MvKeys :
          /\ lastMsg.buffer[k].tag = "Insert"
          /\ lastMsg.output[k].tag = "Update"
          /\ materialize_cache[k] = Some(lastMsg.buffer[k].row)

\* ---------------------------------------------------------------- C31
\* C31: the chunk the executor emits and writes agrees with the row the
\* table held for each key before the chunk: an Insert over a row becomes
\* Update(stored, new), a Delete or an Update takes the stored row for its
\* old row, a Delete of an absent key is dropped, an Update of an absent
\* key becomes Insert(new); so an Insert is emitted for absent keys only
\* and an emitted Delete or UpdateDelete carries the stored row.
C31_OutputFromStored ==
    [][(mvpc' = "running" /\ lastMsg'.kind = "Chunk") =>
        \A k \in MvKeys :
            LET stored == state_table.current[k]
                op == lastMsg'.buffer[k]
                out == lastMsg'.output[k]
                rows == generator_output(lastMsg'.output)[k]
            IN /\ op = VacantEntry => out = VacantEntry
               /\ (op.tag = "Insert" /\ stored # None) =>
                      out = RowOpUpdate(stored.v, op.row)
               /\ (op.tag = "Insert" /\ stored = None) => out = op
               /\ (op.tag = "Delete" /\ stored # None) =>
                      out = RowOpDelete(stored.v)
               /\ (op.tag = "Delete" /\ stored = None) => out = VacantEntry
               /\ (op.tag = "Update" /\ stored # None) =>
                      out = RowOpUpdate(stored.v, op.new)
               /\ (op.tag = "Update" /\ stored = None) =>
                      out = RowOpInsert(op.new)
               /\ \A i \in DOMAIN rows :
                     /\ rows[i].op = "Insert" => stored = None
                     /\ rows[i].op \in {"Delete", "UpdateDelete"} =>
                            stored = Some(rows[i].row)]_vars

\* A chunk has deleted a row naming another old row than the stored one,
\* and has updated a key that was absent.
C31_Witness ==
    /\ Processed
    /\ \E k \in MvKeys :
          /\ lastMsg.buffer[k].tag = "Delete"
          /\ lastMsg.output[k].tag = "Delete"
          /\ lastMsg.output[k].old # lastMsg.buffer[k].old
    /\ \E k \in MvKeys :
          /\ lastMsg.buffer[k].tag = "Insert"
          /\ lastMsg.output[k].tag = "Insert"

\* ---------------------------------------------------------------- C32
Folded(b) == [panic |-> FALSE, buffer |-> b]
\* The buffer of the last message with the slot of k holding op: the
\* other key's slot is as that chunk left it.
Slot(k, op) == [lastMsg.buffer EXCEPT ![k] = op]
Builds == BOOLEAN

\* What the buffer's methods do to the slot of one key, the other slots
\* left as they are: the folds and the panics. Cancels tells when a delete
\* onto a buffered Insert(v) or Update(_, v) folds.
FoldsAnyRow(Cancels(_, _, _)) ==
    \A k \in MvKeys, v \in MvRows, o \in MvRows, debug \in Builds :
        /\ BufferInsert(Slot(k, VacantEntry), k, v)
               = Folded(Slot(k, RowOpInsert(v)))
        /\ BufferDelete(Slot(k, VacantEntry), k, o, debug)
               = Folded(Slot(k, RowOpDelete(o)))
        /\ BufferInsert(Slot(k, RowOpDelete(o)), k, v)
               = Folded(Slot(k, RowOpUpdate(o, v)))
        /\ BufferInsert(Slot(k, RowOpInsert(o)), k, v).panic
        /\ \A n \in MvRows :
              BufferInsert(Slot(k, RowOpUpdate(o, n)), k, v).panic
        /\ \A x \in MvRows :
              BufferDelete(Slot(k, RowOpDelete(x)), k, o, debug).panic
        /\ LET r == BufferDelete(Slot(k, RowOpInsert(v)), k, o, debug)
           IN IF Cancels(debug, v, o)
              THEN r = Folded(Slot(k, VacantEntry)) ELSE r.panic
        /\ \A x \in MvRows :
              LET r == BufferDelete(Slot(k, RowOpUpdate(x, v)), k, o, debug)
              IN IF Cancels(debug, v, o)
                 THEN r = Folded(Slot(k, RowOpDelete(x))) ELSE r.panic

Always(debug, v, o) == TRUE
UnlessAsserted(debug, v, o) == ~debug \/ v = o

\* C32 as stated: per key the buffer folds the ops of a chunk into at most
\* one RowOp: insert on an empty slot is Insert(v), insert then delete is
\* no entry, delete on an empty slot is Delete(o), delete then insert is
\* Update(o, v), Update(o, v) then delete is Delete(o); insert onto Insert
\* or Update and delete onto Delete panic.
C32_FoldsPerKey == FoldsAnyRow(Always)

\* C32 amended: the same, but a delete onto a buffered Insert(v) or
\* Update(o, v) folds in every build only when it names v as old row;
\* naming another row it panics in a build with debug assertions
\* (debug_assert_eq!) and folds all the same in a build without.
C32_FoldsUnlessAsserted == FoldsAnyRow(UnlessAsserted)

\* A chunk has been handled whose delete and insert of one key were folded
\* into an Update.
C32_Witness ==
    /\ Processed
    /\ \E k \in MvKeys :
          /\ lastMsg.buffer[k].tag = "Update"
          /\ lastMsg.output[k].tag = "Insert"

C34_BarrierAfterCommit ==
    [][/\ mvpc = "init" =>
              /\ lastMsg.yielded = "none"
              /\ lastMsg'.yielded \in {"none", "Barrier"}
              /\ mvpc' = "running" =>
                     lastMsg'.kind = "Barrier" /\ lastMsg'.yielded = "Barrier"
       /\ lastMsg'.yielded \in {"none", lastMsg'.kind}
       /\ lastMsg'.yielded = "Barrier" =>
              /\ state_table'.current = state_table.current
              /\ state_table'.committed = state_table.current]_vars

\* A barrier has been passed on after a chunk was handled, and the row the
\* cache holds for a key is the committed one.
C34_Witness ==
    /\ mvpc = "running"
    /\ lastMsg.yielded = "Barrier"
    /\ state_table.committed = state_table.current
    /\ \E k \in MvKeys :
          /\ materialize_cache[k] # Miss
          /\ materialize_cache[k] # None
          /\ materialize_cache[k] = state_table.committed[k]

\* ---------------------------------------------------------------- C35
OnBoth(call) ==
    /\ Len(call.calls) = 2
    /\ call.calls[1] = CallOf("actual", call.op, call.calls[1].args)
    /\ call.calls[2] = CallOf("expected", call.op, call.calls[1].args)

Agree(call) ==
    \/ call.actual.ok /\ call.expected.ok /\ call.actual.v = call.expected.v
    \/ ~call.actual.ok /\ ~call.expected.ok

\* C35: get, and next of the iterator, run on the actual and on the
\* expected store, return what the actual store returned, and panic when
\* and only when the two results are neither both Ok with equal values nor
\* both Err.
C35_VerifiedReads ==
    vcall.op \in {"get", "next"} =>
        /\ OnBoth(vcall)
        /\ vcall.actual # NoResult /\ vcall.expected # NoResult
        /\ vcall.op = "get" =>
              /\ vcall.actual.ok =>
                     vcall.actual.v = actual[vcall.calls[1].args.key]
              /\ vcall.expected.ok =>
                     vcall.expected.v = expected[vcall.calls[2].args.key]
        /\ vpc = "panicked" <=> ~Agree(vcall)
        /\ vpc = "running" => vcall.res = vcall.actual

\* A next has panicked on two Ok results that hold different rows.
C35_Witness ==
    /\ vcall.op = "next"
    /\ vpc = "panicked"
    /\ vcall.actual.ok /\ vcall.expected.ok
    /\ vcall.actual.v # None /\ vcall.expected.v # None

\* ---------------------------------------------------------------- C36
ForwardedOps == {"sync", "seal_epoch", "clear_shared_buffer", "try_wait_epoch"}

\* C36: ingest_batch runs on both stores with the same pairs, delete
\* ranges and write options, the actual store first, and panics when just
\* one of the two fails; sync, seal_epoch, clear_shared_buffer and
\* try_wait_epoch go to the actual store alone and leave the expected
\* store as it was.
C36_WritesOnBothAdminOnActual ==
    [][/\ vcall'.op = "ingest_batch" =>
              LET batch == vcall'.calls[1].args
              IN /\ OnBoth(vcall')
                 /\ vcall'.actual.ok =>
                        actual' = StoreIngest(actual, "actual", batch,
                                              FALSE).data
                 /\ vcall'.expected.ok =>
                        expected' = StoreIngest(expected, "expected", batch,
                                                FALSE).data
                 /\ ~vcall'.actual.ok => actual' = actual
                 /\ ~vcall'.expected.ok => expected' = expected
                 /\ vpc' = "panicked" <=>
                        vcall'.actual.ok # vcall'.expected.ok
                 /\ vpc' = "running" => vcall'.res = vcall'.actual
       /\ vcall'.op \in ForwardedOps =>
              /\ Len(vcall'.calls) = 1
              /\ vcall'.calls[1].store = "actual"
              /\ vcall'.calls[1].op = vcall'.op
              /\ vcall'.res = vcall'.actual
              /\ expected' = expected
              /\ vpc' = vpc]_vars

\* An ingest_batch with a pair has panicked, the actual store having taken
\* the batch and the expected store having failed.
C36_Witness ==
    /\ vcall.op = "ingest_batch"
    /\ vpc = "panicked"
    /\ vcall.actual.ok /\ ~vcall.expected.ok
    /\ DOMAIN vcall.calls[1].args.kv_pairs # {}
    /\ actual # expected

\* ---------------------------------------------------------------- C37
\* C37: add is a field-wise sum: after a.add(b) every counter of a is its
\* value before plus the counter of b of the same name
\* (cache_meta_block_miss grows by b.cache_meta_block_miss), and b is as
\* it was.
C37_FieldwiseSum ==
    stat_adds > 0 =>
        /\ \A f \in StatFields :
              stat_self[f] = lastAdd.self[f] + lastAdd.other[f]
        /\ lastAdd.other_after = lastAdd.other

====
